---- MODULE Spec2Model ----
(***************************************************************************)
(* Model of the local document database handler (class Handler): the      *)
(* versioned commit path create / remove / setIfVersion over put, the      *)
(* write mutex, the 'patch' event emitter and the long poll.               *)
(*                                                                         *)
(* A JavaScript value is a record [t |-> typeof, v |-> payload]; the       *)
(* value undefined is the record [t |-> "undefined"].  Two values are      *)
(* structurally equal exactly when the records are equal.                  *)
(***************************************************************************)
EXTENDS Integers, Sequences, FiniteSets, TLC

VARIABLES
  db,        \* LevelDB contents: a function from the stored keys to JSON text
  clock,     \* the last reading of hrnano()
  writers,   \* the create / remove / setIfVersion calls, one record per caller
  writeLock, \* the Mutex: the queue of callers, its head holds the lock
  pollers,   \* the poll calls, one record per caller
  listeners, \* the callers whose patchHandler is registered on the emitter
  emitted,   \* per key, the patches published as 'patch' events so far
  calls,     \* number of calls the clients have yet to make
  finder     \* the find call: its query and what it returned

vars == <<db, clock, writers, writeLock, pollers, listeners, emitted, calls, finder>>

(***************************************************************************)
(* Bounds of the model                                                     *)
(***************************************************************************)
Keys == {"k1", "k2"}
Writers == {1, 2}    \* the slots of concurrent create / remove / setIfVersion calls
Pollers == {1}       \* the slots of concurrent poll calls
MaxCalls == 2      \* calls (writes and polls) the clients make in one behaviour
MaxHistory == 20   \* commits already stored for k1 when the database is opened

(***************************************************************************)
(* Values                                                                  *)
(***************************************************************************)
undefined == [t |-> "undefined"]
docA == [t |-> "object", v |-> 1]
docB == [t |-> "object", v |-> 2]
Values == {docA, docB}
\* a value whose typeof is not among the allowed types
aBigInt == [t |-> "bigint"]

typeof(value) == value.t

NUM_PATCHES_TO_KEEP == 20
DEFAULT_READ_BLOCK_TIME_MS == 50000

(***************************************************************************)
(* Version algebra                                                         *)
(***************************************************************************)
ZeroVersion == [major |-> 0, minor |-> 0]

incrVersion_same(version, amount) == version

incrVersion_skip(version, amount) ==
  [major |-> version.major, minor |-> version.minor + amount + 1]

incrVersion(version, amount) ==
  [major |-> version.major, minor |-> version.minor + amount]

decrVersion(version, amount) == incrVersion(version, -amount)

isGreaterVersion(a, b) ==
  a.major > b.major \/ (a.major = b.major /\ a.minor > b.minor)

allowedTypes == {"object", "boolean", "number", "string"}

checkValue_any(value) == TRUE

\* TRUE when checkValue returns, FALSE when it throws the TypeError
checkValue(value) == typeof(value) \in allowedTypes

(***************************************************************************)
(* The stored JSON text.  JSON.stringify drops a property whose value is   *)
(* undefined, so the text of a tombstone has no "value" member; reading a  *)
(* member that the parsed object lacks gives undefined.                    *)
(***************************************************************************)
stringify(obj) ==
  IF obj.value = undefined
    THEN [version |-> obj.version, patches |-> obj.patches, updatedAt |-> obj.updatedAt]
    ELSE obj

parse(text) == text

member(obj, name) ==
  IF name \in DOMAIN obj THEN obj[name] ELSE undefined

isLiveValue_envelope(maybe) == maybe # undefined

isLiveValue(maybe) ==
  maybe # undefined /\ member(maybe, "value") # undefined

versionsMatch_major(prev, version) ==
  IF prev = undefined
    THEN version.major = 0 /\ version.minor = 0
    ELSE prev.version.major = version.major

versionsMatch_always(prev, version) == TRUE

versionsMatch(prev, version) ==
  IF prev = undefined
    THEN version.major = 0 /\ version.minor = 0
    ELSE prev.version.major = version.major /\ prev.version.minor = version.minor

valueOrUndefined_envelope(maybeHasValue) == maybeHasValue

valueOrUndefined(maybeHasValue) ==
  IF maybeHasValue = undefined THEN undefined ELSE member(maybeHasValue, "value")

\* the JSON-patch operations between {root: prevValue} and {root: value}
compare(prevValue, value) ==
  IF prevValue = value THEN <<>>
  ELSE IF value = undefined THEN <<[op |-> "remove", path |-> "/root"]>>
  ELSE <<[op |-> "replace", path |-> "/root", value |-> value]>>

\* Array.prototype.slice(-n): the last n elements
sliceLast(s, n) ==
  IF Len(s) <= n THEN s ELSE SubSeq(s, Len(s) - n + 1, Len(s))

\* db.get inside getWithMeta: the parsed envelope, or undefined on notFound
getWithMeta(store, key) ==
  IF key \in DOMAIN store THEN parse(store[key]) ELSE undefined

get(store, key) ==
  LET versioned == getWithMeta(store, key)
  IN IF versioned = undefined THEN undefined ELSE member(versioned, "value")

getWithVersion(store, key) ==
  LET withMeta == getWithMeta(store, key)
  IN IF withMeta = undefined
       THEN [version |-> ZeroVersion]
       ELSE [n \in {"value", "version"} \cap DOMAIN withMeta |-> withMeta[n]]

(***************************************************************************)
(* put, up to the point where db.put is issued.  now is the last clock     *)
(* reading; every hrnano() call returns a reading greater than the last.   *)
(* Result: whether a write is issued, the patch, the JSON text to write    *)
(* and the last clock reading taken.  The options of setIfVersion, which   *)
(* put copies into the patch, are left out.                                *)
(***************************************************************************)
startsLineage_absent(prev) == prev = undefined

\* the condition under which put takes a new major from the clock
startsLineage(prev) == prev = undefined \/ member(prev, "value") = undefined

put_prepend(prev, value, now) ==
  LET prevValue == valueOrUndefined(prev)
      version == IF startsLineage(prev) THEN [major |-> now + 1, minor |-> 1]
                                        ELSE incrVersion(prev.version, 1)
      now1 == IF startsLineage(prev) THEN now + 1 ELSE now
      patches == IF prev # undefined THEN prev.patches ELSE <<>>
      ops == compare(prevValue, value)
      patch == [version |-> version, ops |-> ops]
  IN IF Len(ops) > 0
       THEN [write |-> TRUE, patch |-> patch,
             text |-> stringify([version |-> version, value |-> value,
                        patches |-> <<patch>> \o sliceLast(patches, NUM_PATCHES_TO_KEEP),
                        updatedAt |-> now1 + 1]),
             now |-> now1 + 1]
       ELSE [write |-> FALSE, patch |-> patch, text |-> <<>>, now |-> now1]

put_always(prev, value, now) ==
  LET prevValue == valueOrUndefined(prev)
      version == IF startsLineage(prev) THEN [major |-> now + 1, minor |-> 1]
                                        ELSE incrVersion(prev.version, 1)
      now1 == IF startsLineage(prev) THEN now + 1 ELSE now
      patches == IF prev # undefined THEN prev.patches ELSE <<>>
      ops == compare(prevValue, value)
      patch == [version |-> version, ops |-> ops]
  IN [write |-> TRUE, patch |-> patch,
      text |-> stringify([version |-> version, value |-> value,
                 patches |-> Append(sliceLast(patches, NUM_PATCHES_TO_KEEP), patch),
                 updatedAt |-> now1 + 1]),
      now |-> now1 + 1]

put(prev, value, now) ==
  LET prevValue == valueOrUndefined(prev)
      version == IF startsLineage(prev) THEN [major |-> now + 1, minor |-> 1]
                                        ELSE incrVersion(prev.version, 1)
      now1 == IF startsLineage(prev) THEN now + 1 ELSE now
      patches == IF prev # undefined THEN prev.patches ELSE <<>>
      ops == compare(prevValue, value)
      patch == [version |-> version, ops |-> ops]
  IN IF Len(ops) > 0
       THEN [write |-> TRUE, patch |-> patch,
             text |-> stringify([version |-> version, value |-> value,
                        patches |-> Append(sliceLast(patches, NUM_PATCHES_TO_KEEP), patch),
                        updatedAt |-> now1 + 1]),
             now |-> now1 + 1]
       ELSE [write |-> FALSE, patch |-> patch, text |-> <<>>, now |-> now1]

(***************************************************************************)
(* The database found when the handler is constructed: LevelDown opens the *)
(* directory dbPath, which is empty or holds what earlier calls committed  *)
(* to k1.  history(values, n) replays put for the first n of values: a     *)
(* value after nothing or after undefined is a create, undefined a remove, *)
(* any other value a setIfVersion with the stored version.                 *)
(***************************************************************************)
RECURSIVE history(_, _)
history(values, n) ==
  IF n = 0 THEN [prev |-> undefined, now |-> 0]
  ELSE LET before == history(values, n - 1)
       IN IF valueOrUndefined(before.prev) = undefined /\ values[n] = undefined
            THEN before
            ELSE LET r == put(before.prev, values[n], before.now)
                 IN [prev |-> parse(r.text), now |-> r.now]

\* the store that holds the envelope prev, if any, for k1
storeOf(prev) == IF prev = undefined THEN <<>> ELSE [k \in {"k1"} |-> prev]

alternating(n) == [i \in 1..n |-> IF i % 2 = 1 THEN docA ELSE docB]

Histories == {<<>>, alternating(MaxHistory)}

idleWriter ==
  [pc |-> "idle", op |-> "none", key |-> "k1", value |-> undefined,
   version |-> ZeroVersion, text |-> <<>>, patch |-> <<>>, ret |-> "none",
   thrown |-> [name |-> "none"]]

idleFinder == [pc |-> "idle", query |-> <<>>, thrown |-> "none", ret |-> <<>>]

idlePoller ==
  [pc |-> "idle", keysToVersions |-> <<>>, pending |-> {}, found |-> <<>>,
   resolved |-> <<>>, mark |-> [k \in Keys |-> 0], atCall |-> <<>>, timer |-> 0,
   ret |-> <<>>]

Init ==
  /\ \E values \in Histories :
       /\ db = storeOf(history(values, Len(values)).prev)
       /\ clock = history(values, Len(values)).now
  /\ writers = [w \in Writers |-> idleWriter]
  /\ writeLock = <<>>
  /\ pollers = [p \in Pollers |-> idlePoller]
  /\ listeners = {}
  /\ emitted = [k \in Keys |-> <<>>]
  /\ calls = MaxCalls
  /\ finder = idleFinder

(***************************************************************************)
(* writeLock.runExclusive: the caller runs at once when the mutex is free, *)
(* otherwise it queues; a release hands the mutex to the next in line.     *)
(***************************************************************************)
runExclusive_unlocked(w, call) ==
  /\ writers' = [writers EXCEPT ![w] = [call EXCEPT !.pc = "get"]]
  /\ writeLock' = Append(writeLock, w)

runExclusive(w, call) ==
  /\ writers' = [writers EXCEPT ![w] =
       [call EXCEPT !.pc = IF writeLock = <<>> THEN "get" ELSE "lock"]]
  /\ writeLock' = Append(writeLock, w)

\* what is left of a call once it has returned ret or thrown
returned(call, ret) ==
  [idleWriter EXCEPT !.pc = "done", !.op = call.op, !.key = call.key, !.ret = ret]

\* the callback of w returns ret: the mutex goes to the next caller in line
returnAndRelease(w, ret) ==
  /\ writeLock' = Tail(writeLock)
  /\ writers' = [x \in Writers |->
       IF x = w THEN returned(writers[w], ret)
       ELSE IF Len(writeLock) > 1 /\ x = writeLock[2] THEN [writers[x] EXCEPT !.pc = "get"]
       ELSE writers[x]]

awaitPut_reportsWrite(w, prev, value) ==
  LET r == put(prev, value, clock)
  IN /\ clock' = r.now
     /\ IF r.write
          THEN /\ writers' = [writers EXCEPT ![w] =
                    [@ EXCEPT !.pc = "put", !.text = r.text, !.patch = r.patch]]
               /\ UNCHANGED writeLock
          ELSE returnAndRelease(w, "false")

\* await this.put(...) up to db.put; without a write the callback returns true
awaitPut(w, prev, value) ==
  LET r == put(prev, value, clock)
  IN /\ clock' = r.now
     /\ IF r.write
          THEN /\ writers' = [writers EXCEPT ![w] =
                    [@ EXCEPT !.pc = "put", !.text = r.text, !.patch = r.patch]]
               /\ UNCHANGED writeLock
          ELSE returnAndRelease(w, "true")


(***************************************************************************)
(* create / remove / setIfVersion: the call                                *)
(***************************************************************************)
\* a new call takes the first slot that holds no call in progress
canCall(w) ==
  /\ writers[w].pc \in {"idle", "done"}
  /\ \A x \in Writers : x < w => writers[x].pc \notin {"idle", "done"}
  /\ calls > 0

create(w, key, value) ==
  /\ canCall(w)
  /\ calls' = calls - 1
  /\ LET call == [idleWriter EXCEPT !.op = "create", !.key = key, !.value = value]
     IN IF checkValue(value)
          THEN runExclusive(w, call)
          ELSE /\ writers' = [writers EXCEPT ![w] =
                    returned(call, "TypeError")]
               /\ UNCHANGED writeLock
  /\ UNCHANGED <<db, clock, pollers, listeners, emitted, finder>>

remove(w, key) ==
  /\ canCall(w)
  /\ calls' = calls - 1
  /\ runExclusive(w, [idleWriter EXCEPT !.op = "remove", !.key = key])
  /\ UNCHANGED <<db, clock, pollers, listeners, emitted, finder>>

setIfVersion(w, key, version, value) ==
  /\ canCall(w)
  /\ calls' = calls - 1
  /\ LET call == [idleWriter EXCEPT !.op = "setIfVersion", !.key = key,
                                    !.version = version, !.value = value]
     IN IF value # undefined => checkValue(value)
          THEN runExclusive(w, call)
          ELSE /\ writers' = [writers EXCEPT ![w] =
                    returned(call, "TypeError")]
               /\ UNCHANGED writeLock
  /\ UNCHANGED <<db, clock, pollers, listeners, emitted, finder>>

(***************************************************************************)
(* The callback under the mutex, from the completion of getWithMeta on     *)
(* to db.put or to the return                                              *)
(***************************************************************************)
createGot(w) ==
  /\ writers[w].pc = "get" /\ writers[w].op = "create"
  /\ LET prev == getWithMeta(db, writers[w].key)
     IN IF isLiveValue(prev)
          THEN returnAndRelease(w, "false") /\ UNCHANGED clock
          ELSE awaitPut(w, prev, writers[w].value)
  /\ UNCHANGED <<db, pollers, listeners, emitted, calls, finder>>

removeGot(w) ==
  /\ writers[w].pc = "get" /\ writers[w].op = "remove"
  /\ LET prev == getWithMeta(db, writers[w].key)
     IN IF valueOrUndefined(prev) = undefined
          THEN returnAndRelease(w, "false") /\ UNCHANGED clock
          ELSE awaitPut(w, prev, undefined)
  /\ UNCHANGED <<db, pollers, listeners, emitted, calls, finder>>

setIfVersionGot(w) ==
  /\ writers[w].pc = "get" /\ writers[w].op = "setIfVersion"
  /\ LET prev == getWithMeta(db, writers[w].key)
     IN IF ~versionsMatch(prev, writers[w].version)
          THEN returnAndRelease(w, "false") /\ UNCHANGED clock
          ELSE awaitPut(w, prev, writers[w].value)
  /\ UNCHANGED <<db, pollers, listeners, emitted, calls, finder>>

dbPut_lost(w) ==
  /\ writers[w].pc = "put"
  /\ writers' = [writers EXCEPT ![w].pc = "emit"]
  /\ UNCHANGED <<db, clock, writeLock, pollers, listeners, emitted, calls, finder>>

\* db.put stores the JSON text
dbPut(w) ==
  /\ writers[w].pc = "put"
  /\ db' = [k \in DOMAIN db \cup {writers[w].key} |->
              IF k = writers[w].key THEN writers[w].text ELSE db[k]]
  /\ writers' = [writers EXCEPT ![w].pc = "emit"]
  /\ UNCHANGED <<clock, writeLock, pollers, listeners, emitted, calls, finder>>

(***************************************************************************)
(* poll's patchHandler                                                     *)
(***************************************************************************)
\* new Map(keysToVersions).get(key): the last pair of the key wins
mapGet(keysToVersions, key) ==
  LET at == {i \in 1..Len(keysToVersions) : keysToVersions[i][1] = key}
  IN IF at = {} THEN undefined
     ELSE keysToVersions[CHOOSE i \in at : \A j \in at : j <= i][2]

patchHandler_reversed(poller, key, patch) ==
  LET subscribedVersion == mapGet(poller.keysToVersions, key)
  IN IF /\ subscribedVersion # undefined
        /\ isGreaterVersion(subscribedVersion, patch.version)
        /\ poller.resolved = <<>>
       THEN <<[key |-> key, patches |-> <<patch>>]>>
       ELSE poller.resolved

\* the value the deferred promise holds after the handler ran (<<>>: pending)
patchHandler(poller, key, patch) ==
  LET subscribedVersion == mapGet(poller.keysToVersions, key)
  IN IF /\ subscribedVersion # undefined
        /\ isGreaterVersion(patch.version, subscribedVersion)
        /\ poller.resolved = <<>>
       THEN <<[key |-> key, patches |-> <<patch>>]>>
       ELSE poller.resolved

\* this.emitter.emit('patch', key, patch), then put and the callback return
emit(w) ==
  /\ writers[w].pc = "emit"
  /\ emitted' = [emitted EXCEPT ![writers[w].key] = Append(@, writers[w].patch)]
  /\ pollers' = [p \in Pollers |->
       IF p \in listeners
         THEN [pollers[p] EXCEPT !.resolved =
                 patchHandler(pollers[p], writers[w].key, writers[w].patch)]
         ELSE pollers[p]]
  /\ returnAndRelease(w, "true")
  /\ UNCHANGED <<db, clock, listeners, calls, finder>>


(***************************************************************************)
(* poll                                                                    *)
(***************************************************************************)
keyedPatchesOf_all(keysToVersions, found, i) ==
  [n \in 1..Len(keysToVersions) |->
     [key |-> keysToVersions[n][1], patches |-> found[n]]]

RECURSIVE keyedPatchesOf(_, _, _)
\* the entries of the scan that are not undefined, in the order of the list
keyedPatchesOf(keysToVersions, found, i) ==
  IF i > Len(keysToVersions) THEN <<>>
  ELSE (IF found[i] = <<>> THEN <<>>
        ELSE <<[key |-> keysToVersions[i][1], patches |-> found[i]]>>)
       \o keyedPatchesOf(keysToVersions, found, i + 1)

patchesSince_all(doc, version) ==
  IF doc = undefined THEN <<>> ELSE doc.patches

\* doc.patches.filter((patch) => isGreaterVersion(patch.version, version))
patchesSince(doc, version) ==
  IF doc = undefined THEN <<>>
  ELSE SelectSeq(doc.patches, LAMBDA patch : isGreaterVersion(patch.version, version))

pollReturn_keepsHandler(p, poller, ret) ==
  /\ pollers' = [pollers EXCEPT ![p] =
       [idlePoller EXCEPT !.pc = "done", !.keysToVersions = poller.keysToVersions, !.ret = ret]]
  /\ UNCHANGED listeners

\* the finally block: this.emitter.off('patch', patchHandler), and the return
pollReturn(p, poller, ret) ==
  /\ pollers' = [pollers EXCEPT ![p] =
       [idlePoller EXCEPT !.pc = "done", !.keysToVersions = poller.keysToVersions, !.ret = ret]]
  /\ listeners' = listeners \ {p}

\* the handler is registered and every getWithMeta of the scan is started;
\* mark and atCall record, for the properties, what was published and what
\* was stored for each pair when poll was called
poll(p, keysToVersions) ==
  /\ pollers[p].pc \in {"idle", "done"}
  /\ calls > 0
  /\ calls' = calls - 1
  /\ listeners' = listeners \cup {p}
  /\ pollers' = [pollers EXCEPT ![p] =
       [idlePoller EXCEPT !.pc = "scan", !.keysToVersions = keysToVersions,
                          !.pending = 1..Len(keysToVersions),
                          !.found = [i \in 1..Len(keysToVersions) |-> <<>>],
                          !.mark = [k \in Keys |-> Len(emitted[k])],
                          !.atCall = [i \in 1..Len(keysToVersions) |->
                             patchesSince(getWithMeta(db, keysToVersions[i][1]),
                                          keysToVersions[i][2])]]]
  /\ UNCHANGED <<db, clock, writers, writeLock, emitted, finder>>

\* one getWithMeta of the scan completes; after the last one the scan is
\* returned when it found patches, otherwise poll waits on the promise with
\* the timer of a call without options, opts.readBlockTimeMs being undefined
scanGot(p, i) ==
  /\ pollers[p].pc = "scan"
  /\ i \in pollers[p].pending
  /\ LET pair == pollers[p].keysToVersions[i]
         doc == getWithMeta(db, pair[1])
         poller == [pollers[p] EXCEPT !.pending = @ \ {i},
                                      !.found[i] = patchesSince(doc, pair[2])]
         keyedPatches == keyedPatchesOf(poller.keysToVersions, poller.found, 1)
     IN IF poller.pending # {}
          THEN pollers' = [pollers EXCEPT ![p] = poller] /\ UNCHANGED listeners
          ELSE IF Len(keyedPatches) > 0
            THEN pollReturn(p, poller, keyedPatches)
            ELSE /\ pollers' = [pollers EXCEPT ![p] =
                      [poller EXCEPT !.pc = "wait",
                                     !.timer = DEFAULT_READ_BLOCK_TIME_MS]]
                 /\ UNCHANGED listeners
  /\ UNCHANGED <<db, clock, writers, writeLock, emitted, calls, finder>>

\* withTimeout: the promise was resolved by the handler
pollResolved(p) ==
  /\ pollers[p].pc = "wait"
  /\ pollers[p].resolved # <<>>
  /\ pollReturn(p, pollers[p], pollers[p].resolved)
  /\ UNCHANGED <<db, clock, writers, writeLock, emitted, calls, finder>>

pollTimeout_rethrow(p) ==
  /\ pollers[p].pc = "wait"
  /\ pollers[p].resolved = <<>>
  /\ pollReturn(p, pollers[p], <<[name |-> "TimeoutError"]>>)
  /\ UNCHANGED <<db, clock, writers, writeLock, emitted, calls, finder>>

\* withTimeout: the timer ran out first, the TimeoutError becomes []
pollTimeout(p) ==
  /\ pollers[p].pc = "wait"
  /\ pollers[p].resolved = <<>>
  /\ pollReturn(p, pollers[p], <<>>)
  /\ UNCHANGED <<db, clock, writers, writeLock, emitted, calls, finder>>

(***************************************************************************)
(* The calls the clients make                                              *)
(***************************************************************************)
\* versions a client holds for a key: that of no document and the stored one
knownVersions(key) == {ZeroVersion, getWithVersion(db, key).version}

pollPairs ==
  UNION {{<<key, version>> : version \in knownVersions(key)} : key \in Keys}

\* a list names a key once, as the Map that poll builds from it does
distinctKeys(keysToVersions) ==
  \A i, j \in 1..Len(keysToVersions) :
    keysToVersions[i][1] = keysToVersions[j][1] => i = j

pollLists ==
  {list \in UNION {[1..n -> pollPairs] : n \in 1..Cardinality(Keys)} :
     distinctKeys(list)}

Next ==
  \/ \E w \in Writers, key \in Keys, value \in Values \cup {undefined, aBigInt} :
       create(w, key, value)
  \/ \E w \in Writers, key \in Keys : remove(w, key)
  \/ \E w \in Writers, key \in Keys, value \in Values \cup {undefined, aBigInt} :
       \E version \in knownVersions(key) : setIfVersion(w, key, version, value)
  \/ \E w \in Writers : createGot(w)
  \/ \E w \in Writers : removeGot(w)
  \/ \E w \in Writers : setIfVersionGot(w)
  \/ \E w \in Writers : dbPut(w)
  \/ \E w \in Writers : emit(w)
  \/ \E p \in Pollers : \E keysToVersions \in pollLists : poll(p, keysToVersions)
  \/ \E p \in Pollers : \E i \in 1..Cardinality(Keys) : scanGot(p, i)
  \/ \E p \in Pollers : pollResolved(p)
  \/ \E p \in Pollers : pollTimeout(p)

Spec == Init /\ [][Next]_vars

(***************************************************************************)
(* Progress of a poll: a getWithMeta that was started completes, the timer *)
(* that withTimeout arms runs out, and the continuation of a settled       *)
(* promise is run.  Nothing makes a client call, and the writes need no    *)
(* fairness for a poll to return.                                          *)
(***************************************************************************)
SpecLive ==
  /\ Spec
  /\ \A p \in Pollers :
       /\ WF_vars(\E i \in 1..Cardinality(Keys) : scanGot(p, i))
       /\ WF_vars(pollResolved(p) \/ pollTimeout(p))

(***************************************************************************)
(* Clients that follow a key: every write is a setIfVersion with the       *)
(* version getWithVersion reports at the call and a document as value, and *)
(* every poll names k1 with the version getWithVersion reports at the      *)
(* call.  These clients make one call more than those of Spec.             *)
(***************************************************************************)
InitFollow ==
  /\ \E values \in Histories :
       /\ db = storeOf(history(values, Len(values)).prev)
       /\ clock = history(values, Len(values)).now
  /\ writers = [w \in Writers |-> idleWriter]
  /\ writeLock = <<>>
  /\ pollers = [p \in Pollers |-> idlePoller]
  /\ listeners = {}
  /\ emitted = [k \in Keys |-> <<>>]
  /\ calls = MaxCalls + 1
  /\ finder = idleFinder

NextFollow ==
  \/ \E w \in Writers, key \in Keys, value \in Values :
       setIfVersion(w, key, getWithVersion(db, key).version, value)
  \/ \E w \in Writers : setIfVersionGot(w)
  \/ \E w \in Writers : dbPut(w)
  \/ \E w \in Writers : emit(w)
  \/ \E p \in Pollers : poll(p, <<<<"k1", getWithVersion(db, "k1").version>>>>)
  \/ \E p \in Pollers : scanGot(p, 1)
  \/ \E p \in Pollers : pollResolved(p)
  \/ \E p \in Pollers : pollTimeout(p)

SpecFollow == InitFollow /\ [][NextFollow]_vars

(***************************************************************************)
(* Failures of the KV engine.  db.get rejects with a NotFound error for a  *)
(* key that is not stored, and db.get and db.put may reject with any other *)
(* error of the engine at any time.                                        *)
(***************************************************************************)
NotFoundError == [name |-> "NotFoundError", notFound |-> TRUE]

StorageError == [name |-> "IOError", notFound |-> FALSE]

\* the errors db.get(key) may reject with
rejections(store, key) ==
  {StorageError} \cup (IF key \in DOMAIN store THEN {} ELSE {NotFoundError})

\* the context a caller passes: extractContext gives each one a debugId of
\* its own
ctx(caller) == [debugId |-> caller]

\* the context of poller p, distinct from those of the writers
pollerCtx(p) == ctx(Cardinality(Writers) + p)

WrappedError(err, debugId) ==
  [name |-> "WrappedError", err |-> err, debugId |-> debugId]

\* the catch block of getWithMeta: what it returns, or what it throws
getWithMeta_catch(err, debugId) ==
  IF err.notFound
    THEN [throws |-> FALSE, value |-> undefined]
    ELSE [throws |-> TRUE, error |-> WrappedError(err, debugId)]

throwAndRelease_held(w, error) ==
  /\ UNCHANGED writeLock
  /\ writers' = [writers EXCEPT ![w] =
       [returned(writers[w], error.name) EXCEPT !.thrown = error]]

\* the callback of w throws: runExclusive releases the mutex and the error
\* reaches the caller of create / remove / setIfVersion
throwAndRelease(w, error) ==
  /\ writeLock' = Tail(writeLock)
  /\ writers' = [x \in Writers |->
       IF x = w THEN [returned(writers[w], error.name) EXCEPT !.thrown = error]
       ELSE IF Len(writeLock) > 1 /\ x = writeLock[2] THEN [writers[x] EXCEPT !.pc = "get"]
       ELSE writers[x]]

\* db.get of the callback rejects with err: getWithMeta turns NotFound into
\* undefined and the callback goes on, any other error is thrown wrapped
getRejected(w, err) ==
  /\ writers[w].pc = "get"
  /\ err \in rejections(db, writers[w].key)
  /\ LET caught == getWithMeta_catch(err, ctx(w).debugId)
     IN IF caught.throws
          THEN /\ throwAndRelease(w, caught.error)
               /\ UNCHANGED <<db, clock, pollers, listeners, emitted, calls, finder>>
          ELSE createGot(w) \/ removeGot(w) \/ setIfVersionGot(w)

\* db.put rejects: put has no catch, nothing is stored or emitted and the
\* error of the engine is what the callback throws
putRejected(w, err) ==
  /\ writers[w].pc = "put"
  /\ throwAndRelease(w, err)
  /\ UNCHANGED <<db, clock, pollers, listeners, emitted, calls, finder>>

\* db.get of one getWithMeta of the scan rejects: NotFound is a scan of no
\* document, any other error rejects Promise.all and poll throws it after
\* the finally block
scanRejected(p, i, err) ==
  /\ pollers[p].pc = "scan"
  /\ i \in pollers[p].pending
  /\ err \in rejections(db, pollers[p].keysToVersions[i][1])
  /\ LET caught == getWithMeta_catch(err, pollerCtx(p).debugId)
     IN IF caught.throws
          THEN /\ pollReturn(p, pollers[p], <<caught.error>>)
               /\ UNCHANGED <<db, clock, writers, writeLock, emitted, calls, finder>>
          ELSE scanGot(p, i)

NextFaulty ==
  \/ Next
  \/ \E w \in Writers : \E err \in {NotFoundError, StorageError} : getRejected(w, err)
  \/ \E w \in Writers : putRejected(w, StorageError)
  \/ \E p \in Pollers : \E i \in 1..Cardinality(Keys) :
       \E err \in {NotFoundError, StorageError} : scanRejected(p, i, err)

SpecFaulty == Init /\ [][NextFaulty]_vars

(***************************************************************************)
(* Writers alone over a KV engine that may fail.  A db.get or a db.put     *)
(* that was started settles, one way or the other, and the continuation of *)
(* the write that awaits it is run; nothing makes a client call.           *)
(***************************************************************************)
writerStep(w) ==
  \/ createGot(w)
  \/ removeGot(w)
  \/ setIfVersionGot(w)
  \/ dbPut(w)
  \/ emit(w)
  \/ \E err \in {NotFoundError, StorageError} : getRejected(w, err)
  \/ putRejected(w, StorageError)

NextWrites ==
  \/ \E w \in Writers, key \in Keys, value \in Values \cup {undefined, aBigInt} :
       create(w, key, value)
  \/ \E w \in Writers, key \in Keys : remove(w, key)
  \/ \E w \in Writers, key \in Keys, value \in Values \cup {undefined, aBigInt} :
       \E version \in knownVersions(key) : setIfVersion(w, key, version, value)
  \/ \E w \in Writers : writerStep(w)

SpecWrites ==
  /\ Init
  /\ [][NextWrites]_vars
  /\ \A w \in Writers : WF_vars(writerStep(w))


(***************************************************************************)
(* find: the JavaScript values of documents and queries.  A number is      *)
(* num(n), a string str(s), an object with members object(members); a      *)
(* member that is absent is not in the domain of members.                  *)
(***************************************************************************)
num(n) == [t |-> "number", n |-> n]
str(s) == [t |-> "string", s |-> s]
null == [t |-> "object", isNull |-> TRUE]
object(members) == [t |-> "object", o |-> members]

\* obj[name]: undefined when obj is no object or has no such member
prop(obj, name) ==
  IF "o" \in DOMAIN obj /\ name \in DOMAIN obj.o THEN obj.o[name] ELSE undefined

RECURSIVE path(_, _)
\* ramda path(p, obj)
path(p, obj) == IF p = <<>> THEN obj ELSE path(Tail(p), prop(obj, Head(p)))

\* the code units of the strings of the inputs, which have one character
codeUnit == [x |-> 120, y |-> 121]

\* how a and b compare under the relational operators, which convert null to
\* 0: "lt", "eq", "gt", or "unordered" when every one of a < b, a > b, a <= b
\* and a >= b is false (undefined, or a number against one of these strings)
relation(a, b) ==
  LET numeric(v) == v.t = "number" \/ v = null
      number(v) == IF v = null THEN 0 ELSE v.n
      order(m, n) == IF m < n THEN "lt" ELSE IF m > n THEN "gt" ELSE "eq"
  IN IF numeric(a) /\ numeric(b) THEN order(number(a), number(b))
     ELSE IF a.t = "string" /\ b.t = "string" THEN order(codeUnit[a.s], codeUnit[b.s])
     ELSE "unordered"

\* a === b: an object parsed from the store is never the operand's object
strictEquals(a, b) ==
  IF a.t = "object" /\ a # null THEN FALSE ELSE a = b

bool(b) == IF b THEN "true" ELSE "false"

(***************************************************************************)
(* match and wrappedMatch.  match returns "true", "false", or "undefined"  *)
(* when no case of its switches returns; "ValueError" stands for the       *)
(* ValueError that wrappedMatch throws, which ends the evaluation.  The    *)
(* filters of the inputs use no matches and no startsWith.                 *)
(***************************************************************************)
RECURSIVE match(_, _), wrappedMatch(_, _), every(_, _, _), some(_, _, _)

\* filters.every((f) => wrappedMatch(doc, f)), from the i-th filter on
every(doc, filters, i) ==
  IF i > Len(filters) THEN "true"
  ELSE LET isMatch == wrappedMatch(doc, filters[i])
       IN IF isMatch = "true" THEN every(doc, filters, i + 1) ELSE isMatch

\* filters.some((f) => wrappedMatch(doc, f)), from the i-th filter on
some(doc, filters, i) ==
  IF i > Len(filters) THEN "false"
  ELSE LET isMatch == wrappedMatch(doc, filters[i])
       IN IF isMatch = "false" THEN some(doc, filters, i + 1) ELSE isMatch

match(doc, filter) ==
  CASE filter.operator = "and" -> every(doc, filter.filters, 1)
    [] filter.operator = "or" -> some(doc, filter.filters, 1)
    [] filter.operator = "not" ->
         LET isMatch == wrappedMatch(doc, filter.filter)
         IN IF isMatch = "ValueError" THEN isMatch ELSE bool(isMatch = "false")
    [] OTHER ->
         LET value == path(filter.path, doc)
         IN CASE filter.operator = "eq" -> bool(strictEquals(value, filter.value))
              [] filter.operator = "ne" -> bool(~strictEquals(value, filter.value))
              [] filter.operator = "gt" ->
                   bool(typeof(value) = typeof(filter.value)
                        /\ relation(value, filter.value) = "gt")
              [] filter.operator = "gte" ->
                   bool(typeof(value) = typeof(filter.value)
                        /\ relation(value, filter.value) \in {"gt", "eq"})
              [] filter.operator = "lt" ->
                   bool(typeof(value) = typeof(filter.value)
                        /\ relation(value, filter.value) = "lt")
              [] filter.operator = "lte" ->
                   bool(typeof(value) = typeof(filter.value)
                        /\ relation(value, filter.value) \in {"lt", "eq"})
              [] filter.operator = "exists" -> bool(value # undefined)
              [] filter.operator = "isNull" -> bool(value = null)
              [] OTHER -> "undefined"

wrappedMatch(doc, filter) ==
  LET isMatch == match(doc, filter)
  IN IF isMatch = "undefined" THEN "ValueError" ELSE isMatch

(***************************************************************************)
(* find: the scan                                                          *)
(***************************************************************************)
\* the keys the stores of the inputs may hold, in the order of their bytes
KeyOrder == <<"k1", "k2", "k3">>

\* this.db.iterator: the keys of the store, ascending
iterator(store) == SelectSeq(KeyOrder, LAMBDA key : key \in DOMAIN store)

\* the document { key, value } as match reads it
document(key, value) == object([key |-> str(key), value |-> value])

visit_tombstones(scanned, key, rawValue, filter) ==
  LET value == member(parse(rawValue), "value")
      isMatch == wrappedMatch(document(key, value), filter)
  IN IF isMatch = "ValueError" THEN [scanned EXCEPT !.thrown = "ValueError"]
     ELSE IF isMatch = "true"
       THEN [scanned EXCEPT !.results = Append(@, [key |-> key, value |-> value])]
     ELSE scanned

\* the callback next for the entry of key: results.push for a match
visit(scanned, key, rawValue, filter) ==
  LET value == member(parse(rawValue), "value")
      isMatch == wrappedMatch(document(key, value), filter)
  IN IF value = undefined THEN scanned
     ELSE IF isMatch = "ValueError" THEN [scanned EXCEPT !.thrown = "ValueError"]
     ELSE IF isMatch = "true"
       THEN [scanned EXCEPT !.results = Append(@, [key |-> key, value |-> value])]
     ELSE scanned

RECURSIVE scan(_, _, _, _, _)
\* it.next(next) from the i-th key on, until the entries end or next throws
scan(store, keys, i, filter, scanned) ==
  IF i > Len(keys) \/ scanned.thrown # "none" THEN scanned
  ELSE scan(store, keys, i + 1, filter, visit(scanned, keys[i], store[keys[i]], filter))

(***************************************************************************)
(* find: sortWith(orderBy.map(buildComparator), results) and slice         *)
(***************************************************************************)
\* ascend(path(p))(a, b)
ascend(p, a, b) ==
  LET r == relation(path(p, a), path(p, b))
  IN IF r = "lt" THEN -1 ELSE IF r = "gt" THEN 1 ELSE 0

\* descend(path(p))(a, b)
descend(p, a, b) ==
  LET r == relation(path(p, a), path(p, b))
  IN IF r = "gt" THEN -1 ELSE IF r = "lt" THEN 1 ELSE 0

buildComparator(order, a, b) ==
  IF order.direction = "ASC" THEN ascend(order.path, a, b)
                             ELSE descend(order.path, a, b)

RECURSIVE comparator(_, _, _, _)
\* the comparator of sortWith: the first comparator, from the i-th on, that
\* is not 0 decides
comparator(orderBy, i, a, b) ==
  IF i > Len(orderBy) THEN 0
  ELSE LET result == buildComparator(orderBy[i],
                       document(a.key, a.value), document(b.key, b.value))
       IN IF result # 0 THEN result ELSE comparator(orderBy, i + 1, a, b)

permutations(n) ==
  {f \in [1..n -> 1..n] : \A i, j \in 1..n : f[i] = f[j] => i = j}

\* Array.prototype.sort under sortWith, which is stable: the one order that
\* agrees with the comparator and keeps equal elements as they were; when
\* the comparator admits none, any order, the order being the engine's choice
sortWith(orderBy, results) ==
  LET n == Len(results)
      sorted(f) ==
        \A i, j \in 1..n :
          i < j => LET c == comparator(orderBy, 1, results[f[i]], results[f[j]])
                   IN c < 0 \/ (c = 0 /\ f[i] < f[j])
      stable == {f \in permutations(n) : sorted(f)}
      chosen == IF stable # {} THEN stable ELSE permutations(n)
  IN {[i \in 1..n |-> results[f[i]]] : f \in chosen}

slice_inclusive(list, start, end) ==
  LET from == IF start = undefined THEN 0 ELSE start.n
      to == IF end = undefined \/ end.n >= Len(list) THEN Len(list) ELSE end.n + 1
  IN IF from < to THEN SubSeq(list, from + 1, to) ELSE <<>>

\* Array.prototype.slice(start, end), start and end being undefined or numbers
slice(list, start, end) ==
  LET relative(index, default) ==
        IF index = undefined THEN default
        ELSE IF index.n < 0
          THEN (IF Len(list) + index.n < 0 THEN 0 ELSE Len(list) + index.n)
        ELSE IF index.n > Len(list) THEN Len(list) ELSE index.n
      from == relative(start, 0)
      to == relative(end, Len(list))
  IN IF from < to THEN SubSeq(list, from + 1, to) ELSE <<>>

\* find of the query, whose absent members are not in its domain: it throws
\* the ValueError of the scan or returns the slice of the sorted results
find(query) ==
  /\ finder.pc = "idle"
  /\ LET scanned == scan(db, iterator(db), 1, query.filter,
                         [thrown |-> "none", results |-> <<>>])
         skip == member(query, "skip")
         limit == member(query, "limit")
         end == IF limit = undefined THEN undefined
                ELSE num((IF skip = undefined \/ skip = num(0) THEN 0 ELSE skip.n)
                         + limit.n)
     IN IF scanned.thrown # "none"
          THEN finder' = [pc |-> "done", query |-> query,
                          thrown |-> scanned.thrown, ret |-> <<>>]
          ELSE \E sortedResults \in
                    IF "orderBy" \in DOMAIN query
                      THEN sortWith(query.orderBy, scanned.results)
                      ELSE {scanned.results} :
                 finder' = [pc |-> "done", query |-> query, thrown |-> "none",
                            ret |-> slice(sortedResults, skip, end)]
  /\ UNCHANGED <<db, clock, writers, writeLock, pollers, listeners, emitted, calls>>

(***************************************************************************)
(* find: the filters, the queries and the stores of the inputs             *)
(***************************************************************************)
aPath == <<"value", "a">>
bPath == <<"value", "b">>

Operands == {num(1), str("x")}

Leaves ==
  {[operator |-> operator, path |-> aPath, value |-> value] :
     operator \in {"eq", "ne", "gt", "gte", "lt", "lte"}, value \in Operands}
  \cup {[operator |-> operator, path |-> aPath] : operator \in {"exists", "isNull"}}

\* a filter with an operator that match has no case for
Unsupported == [operator |-> "in", path |-> aPath, value |-> num(1)]

\* the filters that and / or hold in the inputs
Children ==
  {[operator |-> "gt", path |-> aPath, value |-> num(1)],
   [operator |-> "eq", path |-> aPath, value |-> str("x")],
   [operator |-> "exists", path |-> aPath],
   Unsupported}

Junctions ==
  {[operator |-> operator, filters |-> filters] :
     operator \in {"and", "or"},
     filters \in {<<>>} \cup {<<f>> : f \in Children}
                 \cup {<<f, g>> : f \in Children, g \in Children}}

Filters ==
  Leaves \cup {Unsupported} \cup Junctions
  \cup {[operator |-> "not", filter |-> f] : f \in Leaves \cup {Unsupported} \cup Junctions}

\* the filter every document matches
All == [operator |-> "and", filters |-> <<>>]

Orders ==
  {<<[path |-> aPath, direction |-> "ASC"]>>,
   <<[path |-> aPath, direction |-> "DESC"]>>,
   <<[path |-> aPath, direction |-> "ASC"], [path |-> bPath, direction |-> "DESC"]>>,
   <<[path |-> bPath, direction |-> "ASC"], [path |-> aPath, direction |-> "ASC"]>>}

\* a member of a query that is absent or has one of the values
optional(name, values) == {<<>>} \cup {[n \in {name} |-> value] : value \in values}

Queries ==
  {[filter |-> filter] : filter \in Filters}
  \cup {[filter |-> All] @@ orderBy @@ skip @@ limit :
          orderBy \in optional("orderBy", Orders),
          skip \in optional("skip", {num(0), num(1), num(4)}),
          limit \in optional("limit", {num(0), num(1), num(2)})}

\* what was written to a key: nothing, a document, or a document and then
\* its removal
writesOf(values) ==
  {<<>>} \cup {<<value>> : value \in values}
  \cup {<<value, undefined>> : value \in {object(<<>>)}}

\* the store after the writes of each key
storeAfter(writes) ==
  [key \in {k \in DOMAIN writes : writes[k] # <<>>} |->
     history(writes[key], Len(writes[key])).prev]

\* stores of two keys whose documents differ in the type of a, and stores of
\* three keys whose documents differ in a and b
FindStores ==
  {storeAfter(writes) :
     writes \in [{"k1", "k2"} ->
       writesOf({object([a |-> value]) : value \in {num(1), num(2), str("x"), null}}
                \cup {object(<<>>)})]}
  \cup
  {storeAfter(writes) :
     writes \in [{"k1", "k2", "k3"} ->
       {<<object([a |-> num(1), b |-> num(1)])>>, <<object([a |-> num(1), b |-> num(2)])>>,
        <<object([a |-> num(2), b |-> num(1)])>>, <<object([b |-> num(1)])>>,
        <<object([b |-> num(2)])>>}]}

InitFind ==
  /\ db \in FindStores
  /\ clock = 4
  /\ writers = [w \in Writers |-> idleWriter]
  /\ writeLock = <<>>
  /\ pollers = [p \in Pollers |-> idlePoller]
  /\ listeners = {}
  /\ emitted = [k \in Keys |-> <<>>]
  /\ calls = MaxCalls
  /\ finder = idleFinder

NextFind == \E query \in Queries : find(query)

SpecFind == InitFind /\ [][NextFind]_vars

(***************************************************************************)
(* Steps of a call, as seen from outside                                   *)
(***************************************************************************)
\* the callback of w, a call of op, runs on from the completion of getWithMeta
afterGet(w, op) ==
  writers[w].pc = "get" /\ writers[w].op = op /\ writers'[w].pc # "get"

\* the call of op by w returns to its caller
returns(w, op) ==
  writers[w].pc \in {"get", "emit"} /\ writers[w].op = op /\ writers'[w].pc = "done"

\* the version getWithVersion reports for key
versionOf(store, key) == getWithVersion(store, key).version

\* patches is strictly increasing in version
increasing(patches) ==
  \A i \in 1..Len(patches) - 1 :
    isGreaterVersion(patches[i + 1].version, patches[i].version)

(***************************************************************************)
(* C1: every write of an envelope for a key gives it a version strictly    *)
(* greater than the version the key held before the write, hence than      *)
(* every version it ever held; a key with no envelope counts as (0,0).     *)
(***************************************************************************)
C1_VersionGrows ==
  [][\A key \in Keys :
       getWithMeta(db', key) # getWithMeta(db, key)
         => isGreaterVersion(versionOf(db', key), versionOf(db, key))]_vars

\* a key that was removed holds a live document again
C1_Recreated ==
  \E key \in DOMAIN db :
    /\ isLiveValue(parse(db[key]))
    /\ \E i \in 1..Len(parse(db[key]).patches) - 1 :
         parse(db[key]).patches[i].ops[1].op = "remove"

(***************************************************************************)
(* C2: every stored envelope holds at most NUM_PATCHES_TO_KEEP patches.    *)
(***************************************************************************)
C2_AtMostTwentyPatches ==
  \A key \in DOMAIN db : Len(parse(db[key]).patches) <= NUM_PATCHES_TO_KEEP

(***************************************************************************)
(* C3: every stored envelope has a non-empty patches list, strictly        *)
(* increasing in version, whose last patch has the envelope's version.     *)
(***************************************************************************)
C3_PatchesOrdered ==
  \A key \in DOMAIN db :
    LET doc == parse(db[key])
    IN /\ Len(doc.patches) > 0
       /\ increasing(doc.patches)
       /\ doc.patches[Len(doc.patches)].version = doc.version

\* an envelope keeps patches of a removed lineage before those of the new one
C3_TwoLineages ==
  \E key \in DOMAIN db :
    LET doc == parse(db[key])
    IN /\ Len(doc.patches) > 2
       /\ doc.patches[1].version.major < doc.version.major
       /\ doc.version.minor = 1

(***************************************************************************)
(* C4: a setIfVersion whose expected version is not the version of the     *)
(* key's envelope ((0,0) when there is none) returns false, leaves every   *)
(* envelope as it is, publishes no event and resolves no poll.             *)
(***************************************************************************)
C4_MismatchChangesNothing ==
  [][\A w \in Writers :
       (/\ afterGet(w, "setIfVersion")
        /\ writers[w].version # versionOf(db, writers[w].key))
         => /\ writers'[w].pc = "done" /\ writers'[w].ret = "false"
            /\ db' = db /\ emitted' = emitted /\ pollers' = pollers]_vars

\* a setIfVersion returned false, here one that expected (0,0) of a tombstone
C4_RefusedOnTombstone ==
  \E w \in Writers :
    /\ writers[w].pc = "done" /\ writers[w].op = "setIfVersion"
    /\ writers[w].ret = "false"
    /\ writers[w].key \in DOMAIN db
    /\ ~isLiveValue(parse(db[writers[w].key]))
    /\ writeLock = <<>>

(***************************************************************************)
(* C5: create on a key that holds a live document returns false, writes    *)
(* nothing and publishes nothing; on a key with no envelope or with a      *)
(* tombstone it writes, returns true, and the key then holds the value.    *)
(***************************************************************************)
C5_CreateOnlyWhenNotLive ==
  [][\A w \in Writers :
       /\ afterGet(w, "create") =>
            IF get(db, writers[w].key) # undefined
              THEN /\ writers'[w].pc = "done" /\ writers'[w].ret = "false"
                   /\ db' = db /\ emitted' = emitted /\ pollers' = pollers
              ELSE writers'[w].pc = "put"
       /\ returns(w, "create") /\ writers[w].pc = "emit" =>
            /\ writers'[w].ret = "true"
            /\ get(db', writers[w].key) = writers[w].value]_vars

\* of two concurrent creates of one key, one returned true and one false
C5_OneCreated ==
  \E w1, w2 \in Writers :
    /\ writers[w1].pc = "done" /\ writers[w1].op = "create" /\ writers[w1].ret = "true"
    /\ writers[w2].pc = "done" /\ writers[w2].op = "create" /\ writers[w2].ret = "false"
    /\ writers[w1].key = writers[w2].key
    /\ get(db, writers[w1].key) # undefined


(***************************************************************************)
(* C6: a create that writes gives the key the version (major, 1), major a  *)
(* clock reading taken at the commit, on a key with no envelope as on a    *)
(* tombstone; when it returns, get gives the value and getWithVersion that *)
(* version.                                                                *)
(***************************************************************************)
C6_CreateStartsAtMinorOne ==
  [][\A w \in Writers :
       /\ afterGet(w, "create") /\ writers'[w].pc = "put" =>
            /\ writers'[w].patch.version.minor = 1
            /\ writers'[w].patch.version.major > clock
            /\ writers'[w].patch.version.major <= clock'
       /\ returns(w, "create") /\ writers[w].pc = "emit" =>
            /\ get(db', writers[w].key) = writers[w].value
            /\ versionOf(db', writers[w].key) = writers[w].patch.version
            /\ versionOf(db', writers[w].key).minor = 1]_vars

\* a create has written a tombstoned key and is about to return
C6_CreatedOverTombstone ==
  \E w \in Writers :
    /\ writers[w].pc = "emit" /\ writers[w].op = "create"
    /\ get(db, writers[w].key) = writers[w].value
    /\ \E i \in 1..Len(parse(db[writers[w].key]).patches) :
         parse(db[writers[w].key]).patches[i].ops[1].op = "remove"

(***************************************************************************)
(* C7 as stated: a setIfVersion(k, V, v') with matching V and v' different *)
(* from the current value writes the version (V.major, V.minor + 1).       *)
(***************************************************************************)
C7_Original ==
  [][\A w \in Writers :
       (/\ afterGet(w, "setIfVersion")
        /\ writers[w].version = versionOf(db, writers[w].key)
        /\ writers[w].value # get(db, writers[w].key))
         => /\ writers'[w].pc = "put"
            /\ parse(writers'[w].text).version = incrVersion(writers[w].version, 1)]_vars

(***************************************************************************)
(* C7 amended: such a setIfVersion writes (V.major, V.minor + 1) when the  *)
(* key holds a live document; when the key has no envelope or holds a      *)
(* tombstone it writes (major, 1) with major a new clock reading.  The     *)
(* version written is the one the key has when the call returns.           *)
(***************************************************************************)
C7_SuccessorOnLive ==
  [][\A w \in Writers :
       /\ (/\ afterGet(w, "setIfVersion")
           /\ writers[w].version = versionOf(db, writers[w].key)
           /\ writers[w].value # get(db, writers[w].key))
            => /\ writers'[w].pc = "put"
               /\ LET written == parse(writers'[w].text).version
                  IN IF get(db, writers[w].key) # undefined
                       THEN /\ written.major = writers[w].version.major
                            /\ written.minor = writers[w].version.minor + 1
                       ELSE /\ written.minor = 1
                            /\ written.major > clock /\ written.major <= clock'
       /\ returns(w, "setIfVersion") /\ writers[w].pc = "emit" =>
            versionOf(db', writers[w].key) = parse(writers[w].text).version]_vars

\* a setIfVersion has written the successor of the version it expected
C7_WroteSuccessor ==
  \E w \in Writers :
    /\ writers[w].pc = "emit" /\ writers[w].op = "setIfVersion"
    /\ writers[w].version.minor > 0
    /\ versionOf(db, writers[w].key).major = writers[w].version.major
    /\ versionOf(db, writers[w].key).minor = writers[w].version.minor + 1

(***************************************************************************)
(* C8: a setIfVersion with matching version whose value equals the current *)
(* value issues no write: it returns with every envelope as it was, no     *)
(* event published and no poll resolved.                                   *)
(***************************************************************************)
C8_EqualValueWritesNothing ==
  [][\A w \in Writers :
       (/\ afterGet(w, "setIfVersion")
        /\ writers[w].version = versionOf(db, writers[w].key)
        /\ writers[w].value = get(db, writers[w].key))
         => /\ writers'[w].pc = "done"
            /\ db' = db /\ emitted' = emitted /\ pollers' = pollers]_vars

\* a setIfVersion on a live key returned true and no event of the key exists
C8_NoOpReturned ==
  \E w \in Writers :
    /\ writers[w].pc = "done" /\ writers[w].op = "setIfVersion"
    /\ writers[w].ret = "true"
    /\ get(db, writers[w].key) # undefined
    /\ emitted[writers[w].key] = <<>>
    /\ writeLock = <<>>

(***************************************************************************)
(* C9: remove on a live document writes a tombstone with the successor     *)
(* version and a new last patch, returns true, and get then gives          *)
(* undefined; remove on a key with no envelope or with a tombstone returns *)
(* false, writes nothing and publishes nothing.                            *)
(***************************************************************************)
C9_RemoveLeavesTombstone ==
  [][\A w \in Writers :
       /\ afterGet(w, "remove") =>
            IF get(db, writers[w].key) = undefined
              THEN /\ writers'[w].pc = "done" /\ writers'[w].ret = "false"
                   /\ db' = db /\ emitted' = emitted /\ pollers' = pollers
              ELSE LET old == parse(db[writers[w].key])
                       new == parse(writers'[w].text)
                   IN /\ writers'[w].pc = "put"
                      /\ "value" \notin DOMAIN new
                      /\ new.version.major = old.version.major
                      /\ new.version.minor = old.version.minor + 1
                      /\ new.patches[Len(new.patches)].version = new.version
                      /\ new.patches[Len(new.patches)].ops[1].op = "remove"
                      /\ \E n \in 0..Len(old.patches) :
                           SubSeq(new.patches, 1, Len(new.patches) - 1)
                             = SubSeq(old.patches, n + 1, Len(old.patches))
       /\ returns(w, "remove") /\ writers[w].pc = "emit" =>
            /\ writers'[w].ret = "true"
            /\ get(db', writers[w].key) = undefined
            /\ db'[writers[w].key] = writers[w].text]_vars

\* one remove of a key returned true, a second one false
C9_RemovedOnce ==
  \E w1, w2 \in Writers :
    /\ writers[w1].pc = "done" /\ writers[w1].op = "remove" /\ writers[w1].ret = "true"
    /\ writers[w2].pc = "done" /\ writers[w2].op = "remove" /\ writers[w2].ret = "false"
    /\ writers[w1].key = writers[w2].key
    /\ writers[w1].key \in DOMAIN db
    /\ get(db, writers[w1].key) = undefined

(***************************************************************************)
(* Polls, as seen from outside                                             *)
(***************************************************************************)
\* the poll of p returns to its caller
pollReturns(p) == pollers[p].pc \in {"scan", "wait"} /\ pollers'[p].pc = "done"

\* since the handler of p was registered, an event of the key of pair i was
\* published whose version is greater than the version of the pair
publishedSince(p, i) ==
  LET pair == pollers[p].keysToVersions[i]
  IN \E n \in pollers[p].mark[pair[1]] + 1 .. Len(emitted[pair[1]]) :
       isGreaterVersion(emitted[pair[1]][n].version, pair[2])

\* the result ret holds a patch of key with a version greater than version
holdsPatchOf(ret, key, version) ==
  \E e \in 1..Len(ret) :
    /\ ret[e].key = key
    /\ \E j \in 1..Len(ret[e].patches) :
         isGreaterVersion(ret[e].patches[j].version, version)

(***************************************************************************)
(* C10 as stated: when a commit on k with a version greater than V was     *)
(* published while a poll on (k, V) was registered, the poll returns a     *)
(* non-empty result that holds a patch of k with a version greater than V. *)
(***************************************************************************)
C10_Original ==
  [][\A p \in Pollers :
       pollReturns(p) =>
         \A i \in 1..Len(pollers[p].keysToVersions) :
           publishedSince(p, i) =>
             /\ pollers'[p].ret # <<>>
             /\ holdsPatchOf(pollers'[p].ret, pollers[p].keysToVersions[i][1],
                             pollers[p].keysToVersions[i][2])]_vars

(***************************************************************************)
(* C10 amended: in that case the poll, which names each key once, returns  *)
(* a non-empty result, and the result holds a patch of k with a version    *)
(* greater than V when (k, V) is the only pair polled.                     *)
(***************************************************************************)
C10_NoCommitMissed ==
  [][\A p \in Pollers :
       pollReturns(p) =>
         \A i \in 1..Len(pollers[p].keysToVersions) :
           publishedSince(p, i) =>
             /\ pollers'[p].ret # <<>>
             /\ Len(pollers[p].keysToVersions) = 1 =>
                  holdsPatchOf(pollers'[p].ret, pollers[p].keysToVersions[i][1],
                               pollers[p].keysToVersions[i][2])]_vars

\* the scan of a poll on one pair came back empty and the handler has since
\* resolved the promise with a published patch
C10_ResolvedAfterEmptyScan ==
  \E p \in Pollers :
    /\ pollers[p].pc = "wait"
    /\ Len(pollers[p].keysToVersions) = 1
    /\ pollers[p].resolved # <<>>
    /\ publishedSince(p, 1)

(***************************************************************************)
(* Polls of clients that follow a key                                      *)
(***************************************************************************)
\* the patches committed to the key of the one pair of p with a version
\* greater than the version of the pair, in the order of their commits:
\* those published since the handler was registered, then the one that is
\* stored and not yet published
committedSince(p) ==
  LET pair == pollers[p].keysToVersions[1]
      published == SubSeq(emitted[pair[1]], pollers[p].mark[pair[1]] + 1,
                          Len(emitted[pair[1]]))
      stored == IF \E w \in Writers : writers[w].pc = "emit" /\ writers[w].key = pair[1]
                  THEN <<writers[CHOOSE w \in Writers :
                            writers[w].pc = "emit" /\ writers[w].key = pair[1]].patch>>
                  ELSE <<>>
  IN SelectSeq(published \o stored,
               LAMBDA patch : isGreaterVersion(patch.version, pair[2]))

\* the poll of p returns the empty list, and does so on the timeout
emptyOnTimeout(p) ==
  /\ pollers'[p].ret = <<>>
  /\ pollers[p].pc = "wait" /\ pollers[p].resolved = <<>>

(***************************************************************************)
(* C11 as stated: a poll on (k, V) started when V is the version of k      *)
(* returns the empty list, on the timeout, or exactly one entry, of k,     *)
(* that holds the single patch of the first commit on k made since, whose  *)
(* version is greater than V.                                              *)
(***************************************************************************)
C11_Original ==
  [][\A p \in Pollers :
       pollReturns(p) =>
         \/ emptyOnTimeout(p)
         \/ /\ Len(committedSince(p)) > 0
            /\ pollers'[p].ret =
                 <<[key |-> pollers[p].keysToVersions[1][1],
                    patches |-> <<committedSince(p)[1]>>]>>]_vars

(***************************************************************************)
(* C11 amended: such a poll returns the empty list, on the timeout, or     *)
(* exactly one entry, of k, that holds the patches of the first commits on *)
(* k made since the poll started, in commit order, one or more, all with a *)
(* version greater than V: one when the handler resolved the poll, all     *)
(* those stored when the scan read k otherwise.  It returns no patch with  *)
(* a version up to V and no entry of another key.                          *)
(***************************************************************************)
C11_FirstCommitsSince ==
  [][\A p \in Pollers :
       pollReturns(p) =>
         \/ emptyOnTimeout(p)
         \/ LET ret == pollers'[p].ret
                pair == pollers[p].keysToVersions[1]
            IN /\ Len(ret) = 1
               /\ ret[1].key = pair[1]
               /\ Len(ret[1].patches) \in 1..Len(committedSince(p))
               /\ ret[1].patches = SubSeq(committedSince(p), 1, Len(ret[1].patches))
               /\ \A j \in 1..Len(ret[1].patches) :
                    isGreaterVersion(ret[1].patches[j].version, pair[2])
               /\ pollers[p].pc = "wait" => Len(ret[1].patches) = 1]_vars

\* a poll returned the patches of two commits made before its scan read the key
C11_ReturnedTwoPatches ==
  \E p \in Pollers :
    /\ pollers[p].pc = "done"
    /\ Len(pollers[p].ret) = 1
    /\ Len(pollers[p].ret[1].patches) = 2

(***************************************************************************)
(* C12 as stated: when the envelope of some requested key, as stored when  *)
(* poll is called, retains patches with a version greater than the key's   *)
(* sinceVersion, poll returns from its scan, and the result holds for each *)
(* such key exactly those patches, in stored order, and no other entry.    *)
(***************************************************************************)
C12_Original ==
  [][\A p \in Pollers :
       (/\ pollReturns(p)
        /\ \E i \in 1..Len(pollers[p].atCall) : pollers[p].atCall[i] # <<>>)
         => /\ pollers[p].pc = "scan"
            /\ pollers'[p].ret =
                 keyedPatchesOf(pollers[p].keysToVersions, pollers[p].atCall, 1)]_vars

\* what the scan of p has read, with what the step that returns reads last
foundAtReturn(p) ==
  [i \in 1..Len(pollers[p].keysToVersions) |->
     IF i \in pollers[p].pending
       THEN LET pair == pollers[p].keysToVersions[i]
                doc == getWithMeta(db, pair[1])
            IN IF doc = undefined THEN <<>>
               ELSE SelectSeq(doc.patches,
                      LAMBDA patch : isGreaterVersion(patch.version, pair[2]))
       ELSE pollers[p].found[i]]

(***************************************************************************)
(* C12 amended: in that case poll returns from its scan, and the result    *)
(* holds for each requested key whose envelope, as stored when the scan    *)
(* reads it, retains patches with a version greater than the key's         *)
(* sinceVersion exactly those patches, in stored order, in the order of    *)
(* the request, and no entry for the other keys; a key that had such       *)
(* patches when poll was called is among them.                             *)
(***************************************************************************)
C12_ScanReturnsStored ==
  [][\A p \in Pollers :
       (/\ pollReturns(p)
        /\ \E i \in 1..Len(pollers[p].atCall) : pollers[p].atCall[i] # <<>>)
         => /\ pollers[p].pc = "scan"
            /\ LET ret == pollers'[p].ret
                   found == foundAtReturn(p)
                   hits == {i \in 1..Len(found) : found[i] # <<>>}
               IN /\ Len(ret) = Cardinality(hits)
                  /\ \A e \in 1..Len(ret) :
                       \E i \in hits :
                         /\ Cardinality({j \in hits : j <= i}) = e
                         /\ ret[e] = [key |-> pollers[p].keysToVersions[i][1],
                                      patches |-> found[i]]
                  /\ \A i \in 1..Len(found) :
                       pollers[p].atCall[i] # <<>> => i \in hits]_vars

\* a poll on two keys returned from its scan with an entry for each
C12_ScanReturnedTwoKeys ==
  \E p \in Pollers :
    /\ pollers[p].pc = "done"
    /\ Len(pollers[p].keysToVersions) = 2
    /\ Len(pollers[p].ret) = 2
    /\ \A e \in 1..2 : pollers[p].ret[e].key = pollers[p].keysToVersions[e][1]

(***************************************************************************)
(* C13: every poll call eventually returns; a poll whose scan found no     *)
(* patch and for which no patch of a requested key with a version greater  *)
(* than its sinceVersion was published returns the empty list when the     *)
(* timer, armed with DEFAULT_READ_BLOCK_TIME_MS for a call without         *)
(* options, runs out, and the result of a poll is never an error.          *)
(***************************************************************************)
C13_PollReturns ==
  /\ \A p \in Pollers : pollers[p].pc \in {"scan", "wait"} ~> pollers[p].pc = "done"
  /\ [][\A p \in Pollers :
          pollReturns(p) =>
            /\ \A e \in 1..Len(pollers'[p].ret) :
                 pollers'[p].ret[e] # [name |-> "TimeoutError"]
            /\ (/\ pollers[p].pc = "wait"
                /\ \A i \in 1..Len(pollers[p].keysToVersions) : ~publishedSince(p, i))
                 => /\ pollers'[p].ret = <<>>
                    /\ pollers[p].timer = DEFAULT_READ_BLOCK_TIME_MS]_vars

\* a poll that waited returned the empty list though a write was committed:
\* its patch was not one the poll asked for
C13_TimedOutDespiteCommit ==
  \E p \in Pollers :
    /\ pollers[p].pc = "done"
    /\ pollers[p].ret = <<>>
    /\ \E k \in Keys : Len(emitted[k]) > 0

(***************************************************************************)
(* C14: for every key the patch events are published in the order of the   *)
(* commits and with strictly increasing versions: an event carries the     *)
(* last patch of the stored envelope, the versions of the events of a key  *)
(* increase strictly, and no envelope is committed while the patch of an   *)
(* earlier commit is yet to be published.                                  *)
(***************************************************************************)
C14_PublishedInCommitOrder ==
  [][\A key \in Keys :
       /\ emitted'[key] # emitted[key] =>
            LET doc == getWithMeta(db, key)
            IN /\ emitted'[key] = Append(emitted[key], doc.patches[Len(doc.patches)])
               /\ increasing(emitted'[key])
       /\ getWithMeta(db', key) # getWithMeta(db, key) =>
            \A w \in Writers : writers[w].pc # "emit"]_vars

\* two calls that ran concurrently on a key have both published their patch
C14_TwoPublished ==
  \E w1, w2 \in Writers :
    /\ w1 # w2
    /\ writers[w1].pc = "done" /\ writers[w1].ret = "true"
    /\ writers[w2].pc = "done" /\ writers[w2].ret = "true"
    /\ writers[w1].key = writers[w2].key
    /\ Len(emitted[writers[w1].key]) = 2

(***************************************************************************)
(* Two setIfVersion calls in progress on one key with one expected version *)
(***************************************************************************)
\* w2 has not returned from a setIfVersion with the key and version of w1's
racing(w1, w2) ==
  /\ w1 # w2
  /\ writers[w1].op = "setIfVersion" /\ writers[w2].op = "setIfVersion"
  /\ writers[w2].pc \notin {"idle", "done"}
  /\ writers[w2].key = writers[w1].key
  /\ writers[w2].version = writers[w1].version

\* w1 is the first of the two whose callback runs: it finds the expected
\* version stored, and both new values differ from the stored value
firstOfRace(w1, w2) ==
  /\ racing(w1, w2)
  /\ afterGet(w1, "setIfVersion")
  /\ writers[w1].version = versionOf(db, writers[w1].key)
  /\ writers[w1].value # get(db, writers[w1].key)
  /\ writers[w2].value # get(db, writers[w1].key)

\* Of two such calls the first goes on to write while the second waits for
\* the mutex; its db.put stores its value with a version that is next to V
\* and that the second call's version does not match; it returns true; and the
\* second call returns false and leaves the envelope as the first wrote it.
oneWins(next(_, _, _)) ==
  \A w1, w2 \in Writers :
    /\ firstOfRace(w1, w2) =>
         writers'[w1].pc = "put" /\ writers[w2].pc = "lock"
    /\ (racing(w1, w2) /\ writers[w1].pc = "put" /\ writers'[w1].pc = "emit") =>
         /\ writers[w2].pc = "lock"
         /\ get(db', writers[w1].key) = writers[w1].value
         /\ next(versionOf(db', writers[w1].key), writers[w1].version,
                 get(db, writers[w1].key) # undefined)
         /\ ~versionsMatch(getWithMeta(db', writers[w1].key), writers[w2].version)
    /\ (racing(w1, w2) /\ returns(w1, "setIfVersion") /\ writers[w1].pc = "emit") =>
         /\ writers'[w1].ret = "true"
         /\ writers'[w2].pc = "get"
         /\ db' = db
    /\ (/\ afterGet(w2, "setIfVersion")
        /\ ~versionsMatch(getWithMeta(db, writers[w2].key), writers[w2].version)) =>
         /\ writers'[w2].pc = "done" /\ writers'[w2].ret = "false"
         /\ db' = db

(***************************************************************************)
(* C15 as stated: of two concurrent setIfVersion calls on one key with one *)
(* expected version V, the stored one, and values that differ from the     *)
(* stored value, one returns true and the other false, and the envelope    *)
(* then holds the winner's value at the version (V.major, V.minor + 1).    *)
(***************************************************************************)
C15_Original ==
  [][oneWins(LAMBDA written, version, live :
               written = incrVersion(version, 1))]_vars

(***************************************************************************)
(* C15 amended: one returns true and the other false, and the envelope     *)
(* then holds the winner's value, at the version (V.major, V.minor + 1)    *)
(* when the key held a live document and at (major, 1), major being a new  *)
(* clock reading, when it had no envelope or held a tombstone.             *)
(***************************************************************************)
C15_OneWins ==
  [][oneWins(LAMBDA written, version, live :
               IF live THEN written = incrVersion(version, 1)
                       ELSE /\ written.minor = 1
                            /\ written.major > version.major
                            /\ written.major <= clock)]_vars

\* the first of two such calls has stored its value, the second, with
\* another value, waits for the mutex
C15_WinnerCommitted ==
  \E w1, w2 \in Writers :
    /\ racing(w1, w2)
    /\ writers[w1].pc = "emit" /\ writers[w2].pc = "lock"
    /\ writers[w1].value # writers[w2].value
    /\ get(db, writers[w1].key) = writers[w1].value

(***************************************************************************)
(* Queries, as seen from outside                                           *)
(***************************************************************************)
RECURSIVE supported(_)
\* the filter is built from and, or, not, eq, ne, gt, gte, lt, lte, exists
\* and isNull
supported(filter) ==
  CASE filter.operator \in {"and", "or"} ->
         \A i \in 1..Len(filter.filters) : supported(filter.filters[i])
    [] filter.operator = "not" -> supported(filter.filter)
    [] OTHER -> filter.operator \in
                  {"eq", "ne", "gt", "gte", "lt", "lte", "exists", "isNull"}

\* the leaf is above the operand, both being numbers or both strings
above(leaf, operand) ==
  \/ leaf.t = "number" /\ operand.t = "number" /\ leaf.n > operand.n
  \/ leaf.t = "string" /\ operand.t = "string" /\ codeUnit[leaf.s] > codeUnit[operand.s]

RECURSIVE holds(_, _)
\* the filter evaluates to true for the document
holds(filter, doc) ==
  LET leaf == path(filter.path, document(doc.key, doc.value))
  IN CASE filter.operator = "and" ->
            \A i \in 1..Len(filter.filters) : holds(filter.filters[i], doc)
       [] filter.operator = "or" ->
            \E i \in 1..Len(filter.filters) : holds(filter.filters[i], doc)
       [] filter.operator = "not" -> ~holds(filter.filter, doc)
       [] filter.operator = "eq" -> leaf = filter.value
       [] filter.operator = "ne" -> leaf # filter.value
       [] filter.operator = "gt" -> above(leaf, filter.value)
       [] filter.operator = "gte" -> above(leaf, filter.value) \/ leaf = filter.value
       [] filter.operator = "lt" -> above(filter.value, leaf)
       [] filter.operator = "lte" -> above(filter.value, leaf) \/ leaf = filter.value
       [] filter.operator = "exists" -> leaf # undefined
       [] filter.operator = "isNull" -> leaf = null

\* the live documents of the store the filter is true for, by ascending key
matching(store, filter) ==
  LET keys == SelectSeq(KeyOrder, LAMBDA key :
                /\ key \in DOMAIN store
                /\ get(store, key) # undefined
                /\ holds(filter, [key |-> key, value |-> get(store, key)]))
  IN [i \in 1..Len(keys) |-> [key |-> keys[i], value |-> get(store, keys[i])]]

(***************************************************************************)
(* C16: a find with a filter built from the supported operators and        *)
(* without orderBy, skip and limit returns exactly the documents of the    *)
(* live envelopes for which the filter is true, each once, by ascending    *)
(* key; no tombstoned key is in the result, and gt, gte, lt and lte are    *)
(* false when the leaf and the operand differ in type.                     *)
(***************************************************************************)
C16_FindReturnsMatches ==
  (/\ finder.pc = "done"
   /\ DOMAIN finder.query = {"filter"}
   /\ supported(finder.query.filter))
    => /\ finder.thrown = "none"
       /\ finder.ret = matching(db, finder.query.filter)

\* a find with a comparison returned one of two live documents, the other
\* having a leaf of another type than the operand, and no tombstone
C16_ComparedAcrossTypes ==
  /\ finder.pc = "done"
  /\ DOMAIN finder.query = {"filter"}
  /\ finder.query.filter.operator \in {"gte", "lte"}
  /\ finder.query.filter.value = num(1)
  /\ Len(finder.ret) = 1
  /\ \E key \in DOMAIN db : get(db, key) = object([a |-> str("x")])

\* a find with a filter that is true of a tombstone's document returned the
\* live document only
C16_TombstoneSkipped ==
  /\ finder.pc = "done"
  /\ DOMAIN finder.query = {"filter"}
  /\ finder.query.filter = [operator |-> "not", filter |-> [operator |-> "exists", path |-> aPath]]
  /\ Len(finder.ret) = 1
  /\ \E key \in DOMAIN db : get(db, key) = undefined

\* the list without its first n elements, and its first n elements
drop(n, list) ==
  IF n >= Len(list) THEN <<>> ELSE [i \in 1..Len(list) - n |-> list[i + n]]

take(n, list) ==
  IF n >= Len(list) THEN list ELSE [i \in 1..n |-> list[i]]

\* the matches of the query of the find, sorted when it has an orderBy
sortedMatches ==
  IF "orderBy" \in DOMAIN finder.query
    THEN sortWith(finder.query.orderBy, matching(db, finder.query.filter))
    ELSE {matching(db, finder.query.filter)}

(***************************************************************************)
(* C17: find returns the sorted match list without its first skip          *)
(* elements, none when skip is absent, and of these the first limit        *)
(* elements, all when limit is absent.                                     *)
(***************************************************************************)
C17_SkipThenLimit ==
  (finder.pc = "done" /\ supported(finder.query.filter))
    => \E sorted \in sortedMatches :
         LET skip == IF "skip" \in DOMAIN finder.query THEN finder.query.skip.n ELSE 0
             skipped == drop(skip, sorted)
         IN finder.ret = IF "limit" \in DOMAIN finder.query
                           THEN take(finder.query.limit.n, skipped)
                           ELSE skipped

\* a find over three documents skipped one and returned the next one of two
C17_SecondOfThree ==
  /\ finder.pc = "done"
  /\ Cardinality(DOMAIN db) = 3
  /\ DOMAIN finder.query = {"filter", "orderBy", "skip", "limit"}
  /\ finder.query.skip = num(1) /\ finder.query.limit = num(1)
  /\ Len(finder.ret) = 1
  /\ \E sorted \in sortedMatches : finder.ret[1] = sorted[2]

\* how the claimed order of one orderBy entry ranks a before b: a missing
\* value is less than every defined one
ranks(order, a, b) ==
  LET x == path(order.path, document(a.key, a.value))
      y == path(order.path, document(b.key, b.value))
      less == \/ x = undefined /\ y # undefined
              \/ x # undefined /\ y # undefined /\ relation(x, y) = "lt"
      more == \/ y = undefined /\ x # undefined
              \/ x # undefined /\ y # undefined /\ relation(x, y) = "gt"
  IN IF order.direction = "ASC"
       THEN (IF less THEN -1 ELSE IF more THEN 1 ELSE 0)
       ELSE (IF more THEN -1 ELSE IF less THEN 1 ELSE 0)

RECURSIVE ranksBefore(_, _, _, _)
\* a is before b in the claimed order: the first entry, from the i-th on,
\* that ranks them apart decides, and the scan order does when none does
ranksBefore(orderBy, i, a, b) ==
  IF i > Len(orderBy)
    THEN \E m, n \in 1..Len(KeyOrder) : KeyOrder[m] = a.key /\ KeyOrder[n] = b.key /\ m < n
    ELSE \/ ranks(orderBy[i], a, b) < 0
         \/ ranks(orderBy[i], a, b) = 0 /\ ranksBefore(orderBy, i + 1, a, b)

(***************************************************************************)
(* C18: a find with an orderBy returns the matches so that, for an entry   *)
(* with direction ASC, a document whose value at the path is missing is    *)
(* before every document whose value is defined, and after it for DESC;    *)
(* documents an entry ranks equal are ordered by the later entries and     *)
(* then by scan order.                                                     *)
(***************************************************************************)
C18_MissingSortsFirst ==
  (/\ finder.pc = "done"
   /\ DOMAIN finder.query = {"filter", "orderBy"})
    => \A i, j \in 1..Len(finder.ret) :
         i < j => ranksBefore(finder.query.orderBy, 1, finder.ret[i], finder.ret[j])

\* the same for stores in which the value at every ordering path is defined
C18_DefinedValuesSorted ==
  (/\ finder.pc = "done"
   /\ DOMAIN finder.query = {"filter", "orderBy"}
   /\ \A key \in DOMAIN db : prop(get(db, key), "a") # undefined)
    => \A i, j \in 1..Len(finder.ret) :
         i < j => ranksBefore(finder.query.orderBy, 1, finder.ret[i], finder.ret[j])

(***************************************************************************)
(* C19: a find whose filter holds an operator outside the supported set,   *)
(* at the top or in a child of and, or, not, throws a ValueError and       *)
(* returns no list, whatever the store holds.                              *)
(***************************************************************************)
C19_UnsupportedThrows ==
  (finder.pc = "done" /\ ~supported(finder.query.filter))
    => finder.thrown = "ValueError"

\* the ValueError is thrown when the unsupported filter is evaluated: for
\* an unsupported top-level filter, when the store holds a live document
C19_ThrowsOnLiveDocument ==
  (/\ finder.pc = "done"
   /\ finder.query.filter.operator \notin
        {"and", "or", "not", "eq", "ne", "gt", "gte", "lt", "lte", "exists", "isNull"})
    => (finder.thrown = "ValueError" <=> \E key \in DOMAIN db : get(db, key) # undefined)

(***************************************************************************)
(* Calls of create and setIfVersion, as seen from outside                  *)
(***************************************************************************)
\* the caller w calls create, remove or setIfVersion
called(w) == canCall(w) /\ calls' = calls - 1 /\ pollers' = pollers

(***************************************************************************)
(* C20: a create or setIfVersion whose value is not an object, a boolean,  *)
(* a number or a string, which for create includes undefined, throws the   *)
(* TypeError before it queues for the mutex: no envelope is read or        *)
(* written, the clock is not read, no event is published and no poll is    *)
(* resolved.  A setIfVersion with the value undefined is no error: it      *)
(* queues, returns false without a write when the version does not match   *)
(* and stores a tombstone under the successor version when it matches a    *)
(* live document.                                                          *)
(***************************************************************************)
C20_TypeErrorTouchesNothing ==
  [][\A w \in Writers :
       /\ called(w) =>
            IF writers'[w].pc = "done"
              THEN /\ writers'[w].ret = "TypeError"
                   /\ UNCHANGED <<db, clock, writeLock, emitted, listeners>>
                   /\ \A x \in Writers \ {w} : writers'[x] = writers[x]
              ELSE /\ writers'[w].pc \in {"get", "lock"}
                   /\ writers'[w].op \in {"create", "setIfVersion"} =>
                        \/ writers'[w].value.t \in {"object", "boolean", "number", "string"}
                        \/ /\ writers'[w].op = "setIfVersion"
                           /\ writers'[w].value = undefined
       /\ (afterGet(w, "setIfVersion") /\ writers[w].value = undefined) =>
            IF versionOf(db, writers[w].key) # writers[w].version
              THEN writers'[w].ret = "false" /\ db' = db
              ELSE get(db, writers[w].key) # undefined =>
                     /\ writers'[w].pc = "put"
                     /\ "value" \notin DOMAIN parse(writers'[w].text)
                     /\ parse(writers'[w].text).version =
                          incrVersion(writers[w].version, 1)]_vars

\* a setIfVersion threw the TypeError while a call on the same key held the
\* mutex
C20_SetIfVersionRejected ==
  \E w, x \in Writers :
    /\ writers[w].pc = "done" /\ writers[w].op = "setIfVersion"
    /\ writers[w].ret = "TypeError"
    /\ writers[x].pc = "get" /\ writers[x].key = writers[w].key


(***************************************************************************)
(* C21..C25: failures of the KV engine, the handler of a poll, the order   *)
(* of the store write and the event, and a write that commits nothing      *)
(***************************************************************************)
\* w's call ends in this step by throwing
throws(w) ==
  /\ writers[w].pc \notin {"idle", "done"}
  /\ writers'[w].pc = "done"
  /\ writers'[w].thrown.name \notin {"none"}

\* the errors among what poll p handed to its caller
errorsOf(ret) == {i \in 1..Len(ret) : "name" \in DOMAIN ret[i]}

\* p's call ends in this step by throwing
pollThrows(p) ==
  /\ pollers[p].pc \in {"scan", "wait"}
  /\ pollers'[p].pc = "done"
  /\ errorsOf(pollers'[p].ret) # {}

wrappedFor(error, context) ==
  /\ error.name = "WrappedError"
  /\ error.debugId = context.debugId

\* C21: every failure of the KV engine other than NotFound, in db.get or in
\* db.put, reaches the caller of create / remove / setIfVersion / poll as a
\* WrappedError that carries the caller's debugId, and NotFound never reaches
\* the caller as an error
C21_FailuresReachWrapped ==
  [][/\ \A w \in Writers :
          throws(w) => wrappedFor(writers'[w].thrown, ctx(w))
     /\ \A p \in Pollers :
          pollThrows(p) =>
            \A i \in errorsOf(pollers'[p].ret) :
              wrappedFor(pollers'[p].ret[i], pollerCtx(p))]_vars

\* C21, the part the code keeps: a failure of db.get other than NotFound is
\* thrown wrapped with the caller's debugId, in a write and in a poll, and
\* NotFound is never thrown
C21_GetFailuresWrapped ==
  [][/\ \A w \in Writers :
          throws(w) /\ writers[w].pc = "get" =>
            wrappedFor(writers'[w].thrown, ctx(w))
     /\ \A w \in Writers :
          throws(w) => writers'[w].thrown.name # "NotFoundError"
     /\ \A p \in Pollers :
          pollThrows(p) =>
            \A i \in errorsOf(pollers'[p].ret) :
              wrappedFor(pollers'[p].ret[i], pollerCtx(p))]_vars

\* a write ended with the error of the engine as db.put rejected with it
C21_PutFailureUnwrapped ==
  \E w \in Writers :
    /\ writers[w].pc = "done"
    /\ writers[w].thrown = StorageError


\* the polls in progress: called and not yet returned
inProgress == {p \in Pollers : pollers[p].pc \in {"scan", "wait"}}

\* C22: the patch handlers registered on the emitter are those of the polls
\* in progress, whatever way the earlier polls ended (scan hit, event,
\* timeout, storage error during the scan): as many handlers as polls in
\* progress, and none when no poll is in progress
C22_HandlersOfPollsInProgress ==
  /\ listeners = inProgress
  /\ Cardinality(listeners) = Cardinality(inProgress)
  /\ (inProgress = {} => listeners = {})

\* a poll ended by a storage error during its scan and its handler is gone
C22_ScanErrorRemovedHandler ==
  \E p \in Pollers :
    /\ pollers[p].pc = "done"
    /\ errorsOf(pollers[p].ret) # {}
    /\ p \notin listeners


\* an event for key is published in this step
publishes(key) == Len(emitted'[key]) > Len(emitted[key])

\* the handler of p settles its promise in this step
observes(p) == pollers[p].resolved = <<>> /\ pollers'[p].resolved # <<>>

\* C23: an event for (key, patch) is published only when the envelope that
\* carries patch.version is stored, by the write that holds the mutex and
\* has not returned yet, and the write returns and releases the mutex after
\* it; a handler that observes the event finds in the store an envelope of
\* the key whose version is at least patch.version
C23_PublishedAfterStoredBeforeReturn ==
  [][/\ \A key \in Keys :
          publishes(key) =>
            LET patch == emitted'[key][Len(emitted'[key])]
                stored == getWithMeta(db, key)
            IN /\ stored # undefined
               /\ stored.version = patch.version
               /\ stored.patches[Len(stored.patches)] = patch
               /\ db' = db
               /\ writeLock # <<>>
               /\ writers[Head(writeLock)].pc = "emit"
               /\ writers[Head(writeLock)].key = key
               /\ writers'[Head(writeLock)].pc = "done"
               /\ Head(writeLock) \notin {writeLock'[i] : i \in 1..Len(writeLock')}
     /\ \A p \in Pollers :
          observes(p) =>
            LET entry == pollers'[p].resolved[1]
            IN /\ publishes(entry.key)
               /\ ~isGreaterVersion(entry.patches[1].version,
                                    versionOf(db', entry.key))]_vars

\* the handler of a waiting poll observed an event
C23_HandlerObservedEvent ==
  \E p \in Pollers :
    /\ pollers[p].pc = "wait"
    /\ pollers[p].resolved # <<>>
    /\ emitted[pollers[p].resolved[1].key] # <<>>


\* the callers that queue for the mutex or hold it
queued(lock) == {lock[i] : i \in 1..Len(lock)}

C24_FailedCommitReleases ==
  [][\A w \in Writers :
       throws(w) =>
         /\ db' = db
         /\ emitted' = emitted
         /\ writeLock' = Tail(writeLock)]_vars

clearsNothing(w) ==
  LET prev == getWithMeta(db, writers[w].key)
  IN /\ writers[w].pc = "get"
     /\ writers[w].op = "setIfVersion"
     /\ writers[w].value = undefined
     /\ ~isLiveValue(prev)
     /\ versionsMatch(prev, writers[w].version)
     /\ prev = undefined => writers[w].version = ZeroVersion

C25_TrueOnAbsentKey ==
  \E w \in Writers :
    /\ writers[w].pc = "done"
    /\ writers[w].op = "setIfVersion"
    /\ writers[w].ret = "true"
    /\ writers[w].key \notin DOMAIN db

====
